---- MODULE Spec2Model ----
(***************************************************************************)
(* Command interpolation of labtasker (client/core/cmd_parser/parser.py):  *)
(* "%(a.b)" placeholders of a command are replaced by values of a nested   *)
(* variable table.  Strings are sequences of one-character strings.        *)
(* Python values are tagged records:                                       *)
(*   [t |-> "str", s |-> chars]   [t |-> "int", i |-> n]                   *)
(*   [t |-> "bool", b |-> B]      [t |-> "none"]                           *)
(*   [t |-> "list", l |-> <<values>>]                                      *)
(*   [t |-> "dict", items |-> << <<key chars, value>>, ... >>]  (ordered)  *)
(***************************************************************************)
EXTENDS Integers, Sequences, FiniteSets, TLC

VARIABLES
    entry,            \* which public function the caller invokes
    cmd,              \* its cmd / input_str argument
    qd_arg,           \* its quote_dict argument (interpolate_str only)
    variable_table,   \* the caller's variable table
    pc,               \* position of the call
    i,                \* cmd_interpolate: index of the word of the for loop
    interpolated_cmd, \* cmd_interpolate: local list
    involved_keys,    \* cmd_interpolate: local set
    input_str,        \* interpolate_str: argument
    quote_dict,       \* interpolate_str: argument, kept by the listener
    events,           \* listener callbacks of the walk of the parse tree
    ip,               \* index of the next callback of the walk
    result_str,       \* CmdListener.result_str
    args,             \* CmdListener.args
    variable,         \* CmdListener.variable
    stderr,           \* what format_print_error printed on stderr_console
    exc,              \* the exception that reached the caller, or NoExc
    ret,              \* the value returned to the caller, or NoRet
    fmt_in            \* arguments of a direct format_print_error call

vars == <<entry, cmd, qd_arg, variable_table, pc, i, interpolated_cmd,
          involved_keys, input_str, quote_dict, events, ip, result_str,
          args, variable, stderr, exc, ret, fmt_in>>

\* ---------------------------------------------------------------- bounds

\* Pieces a command is made of, at most.
MaxPieces == 2

\* Longest error line given to format_print_error directly.
MaxLineLen == 104

\* ---------------------------------------------------------- python values

NoneV == [t |-> "none"]
StrV(s) == [t |-> "str", s |-> s]
IntV(n) == [t |-> "int", i |-> n]
BoolV(b) == [t |-> "bool", b |-> b]
ListV(l) == [t |-> "list", l |-> l]
DictV(items) == [t |-> "dict", items |-> items]

NoExc == [type |-> "none"]
NoRet == [kind |-> "none"]

SQ == "'"
DQ == "\""
BS == "\\"
NL == "\n"

DigitChars == <<"0", "1", "2", "3", "4", "5", "6", "7", "8", "9">>

RECURSIVE NatStr(_)
NatStr(n) ==
    IF n < 10 THEN <<DigitChars[n + 1]>>
    ELSE NatStr(n \div 10) \o <<DigitChars[(n % 10) + 1]>>

\* str(int)
IntStr(n) == IF n < 0 THEN <<"-">> \o NatStr(-n) ELSE NatStr(n)

Chars(s) == {s[j] : j \in 1..Len(s)}

RECURSIVE EscapeStr(_, _)
EscapeStr(s, q) ==
    IF s = <<>> THEN <<>>
    ELSE LET c == Head(s)
             e == IF c = BS THEN <<BS, BS>>
                  ELSE IF c = q THEN <<BS, q>>
                  ELSE IF c = NL THEN <<BS, "n">>
                  ELSE <<c>>
         IN e \o EscapeStr(Tail(s), q)

\* repr(str): single quotes, unless the text holds ' and no "
ReprStr(s) ==
    LET q == IF SQ \in Chars(s) /\ DQ \notin Chars(s) THEN DQ ELSE SQ
    IN <<q>> \o EscapeStr(s, q) \o <<q>>

RECURSIVE Repr(_)
RECURSIVE ReprList(_)
RECURSIVE ReprItems(_)

\* repr(value)
Repr(v) ==
    CASE v.t = "str" -> ReprStr(v.s)
      [] v.t = "int" -> IntStr(v.i)
      [] v.t = "bool" -> IF v.b THEN <<"T", "r", "u", "e">>
                         ELSE <<"F", "a", "l", "s", "e">>
      [] v.t = "none" -> <<"N", "o", "n", "e">>
      [] v.t = "list" -> <<"[">> \o ReprList(v.l) \o <<"]">>
      [] v.t = "dict" -> <<"{">> \o ReprItems(v.items) \o <<"}">>

ReprList(l) ==
    IF l = <<>> THEN <<>>
    ELSE IF Len(l) = 1 THEN Repr(l[1])
    ELSE Repr(l[1]) \o <<",", " ">> \o ReprList(Tail(l))

ReprItems(items) ==
    IF items = <<>> THEN <<>>
    ELSE LET one == ReprStr(items[1][1]) \o <<":", " ">> \o Repr(items[1][2])
         IN IF Len(items) = 1 THEN one
            ELSE one \o <<",", " ">> \o ReprItems(Tail(items))

\* str(value)
Str(v) == IF v.t = "str" THEN v.s ELSE Repr(v)

\* type(value).__name__
TypeName(v) == IF v.t = "none" THEN "NoneType" ELSE v.t

\* isinstance(value, dict)
IsDict(v) == v.t = "dict"

Keys(d) == {d.items[j][1] : j \in 1..Len(d.items)}

\* dict.get(key): the value of the key, or None
DictGet(d, k) ==
    IF k \in Keys(d)
    THEN LET j == CHOOSE j \in 1..Len(d.items) : d.items[j][1] = k
         IN d.items[j][2]
    ELSE NoneV

\* ------------------------------------------------------ text operations

\* reverse_quotes(s): every ' becomes " and every " becomes '
\* reverse_quotes that maps ' to " and leaves " alone
RECURSIVE reverse_quotes_oneway(_)
reverse_quotes_oneway(s) ==
    IF s = <<>> THEN <<>>
    ELSE <<IF Head(s) = SQ THEN DQ ELSE Head(s)>>
         \o reverse_quotes_oneway(Tail(s))

RECURSIVE reverse_quotes(_)
reverse_quotes(s) ==
    IF s = <<>> THEN <<>>
    ELSE LET c == Head(s)
         IN <<IF c = SQ THEN DQ ELSE IF c = DQ THEN SQ ELSE c>>
            \o reverse_quotes(Tail(s))

Letters ==
    {"a", "b", "c", "d", "e", "f", "g", "h", "i", "j", "k", "l", "m", "n",
     "o", "p", "q", "r", "s", "t", "u", "v", "w", "x", "y", "z",
     "A", "B", "C", "D", "E", "F", "G", "H", "I", "J", "K", "L", "M", "N",
     "O", "P", "Q", "R", "S", "T", "U", "V", "W", "X", "Y", "Z"}

\* letters, digits and underscore
IdChars == Letters \cup Chars(DigitChars) \cup {"_"}

\* the characters shlex.quote leaves alone: [\w@%+=:,./-]
SafeChars == IdChars \cup {"@", "%", "+", "=", ":", ",", ".", "/", "-"}

RECURSIVE ReplaceSQ(_)
ReplaceSQ(s) ==
    IF s = <<>> THEN <<>>
    ELSE (IF Head(s) = SQ THEN <<SQ, DQ, SQ, DQ, SQ>> ELSE <<Head(s)>>)
         \o ReplaceSQ(Tail(s))

\* shlex.quote(s)
shlex_quote(s) ==
    IF s = <<>> THEN <<SQ, SQ>>
    ELSE IF Chars(s) \subseteq SafeChars THEN s
    ELSE <<SQ>> \o ReplaceSQ(s) \o <<SQ>>

\* str.splitlines()
RECURSIVE splitlines(_)
splitlines(s) ==
    IF s = <<>> THEN <<>>
    ELSE LET nl == {j \in 1..Len(s) : s[j] = NL}
         IN IF nl = {} THEN <<s>>
            ELSE LET j == CHOOSE j \in nl : \A m \in nl : j <= m
                 IN <<SubSeq(s, 1, j - 1)>>
                    \o splitlines(SubSeq(s, j + 1, Len(s)))

Max(a, b) == IF a >= b THEN a ELSE b
Min(a, b) == IF a <= b THEN a ELSE b

\* format_print_error's context_size parameter (its default; no caller sets it)
context_size == 50

Ellipsis == <<".", ".", ".">>

\* format_print_error whose caret ignores the leading ellipsis
format_print_error_noadjust(line, column, error_line, msg) ==
    LET start == Max(0, column - context_size)
        end == Min(Len(error_line), column + context_size + 1)
        slice == SubSeq(error_line, start + 1, end)
        left == IF start > 0 THEN Ellipsis \o slice ELSE slice
    IN [line |-> line,
        column |-> column + 1,
        context_line |-> IF end < Len(error_line) THEN left \o Ellipsis
                         ELSE left,
        pointer_offset |-> column - start,
        msg |-> msg]

\* format_print_error(console, line, column, error_line, msg): the text it
\* prints, as a record (the markup of the console is left out)
format_print_error(line, column, error_line, msg) ==
    LET start == Max(0, column - context_size)
        end == Min(Len(error_line), column + context_size + 1)
        slice == SubSeq(error_line, start + 1, end)
        left == IF start > 0 THEN Ellipsis \o slice ELSE slice
        context_line == IF end < Len(error_line) THEN left \o Ellipsis
                        ELSE left
        pointer_offset == column - start + (IF start > 0 THEN 3 ELSE 0)
    IN [line |-> line,
        column |-> column + 1,
        context_line |-> context_line,
        pointer_offset |-> pointer_offset,
        msg |-> msg]

\* ------------------------------------------------------------ tokenizer

\* 1-based line and 0-based column of the character at index j of s
LineOf(s, j) == 1 + Cardinality({m \in 1..(j - 1) : s[m] = NL})

ColumnOf(s, j) ==
    LET nl == {m \in 1..(j - 1) : s[m] = NL}
    IN IF nl = {} THEN j - 1
       ELSE (j - 1) - (CHOOSE m \in nl : \A n \in nl : n <= m)

Token(kind, s, from, to) ==
    [kind |-> kind, text |-> SubSeq(s, from, to),
     line |-> LineOf(s, from), column |-> ColumnOf(s, from)]

StartsPlaceholder(s, j) == j < Len(s) /\ s[j] = "%" /\ s[j + 1] = "("

\* the index after the text run that starts at index j
RECURSIVE TextEnd(_, _)
TextEnd(s, j) ==
    IF j > Len(s) \/ StartsPlaceholder(s, j) THEN j ELSE TextEnd(s, j + 1)

\* the index after the identifier that starts at index j
RECURSIVE IdEnd(_, _)
IdEnd(s, j) == IF j > Len(s) \/ s[j] \notin IdChars THEN j ELSE IdEnd(s, j + 1)

Whitespace == {" ", "\t", "\r", NL}

\* the tokens of s from index j on, inside a placeholder or not
RECURSIVE Tokenize(_, _, _)
Tokenize(s, j, inside) ==
    IF j > Len(s) THEN <<Token("EOF", s, j, j - 1)>>
    ELSE IF ~inside
    THEN IF StartsPlaceholder(s, j)
         THEN <<Token("START", s, j, j + 1)>> \o Tokenize(s, j + 2, TRUE)
         ELSE LET e == TextEnd(s, j + 1)
              IN <<Token("TEXT", s, j, e - 1)>> \o Tokenize(s, e, FALSE)
    ELSE IF s[j] \in Whitespace THEN Tokenize(s, j + 1, TRUE)
    ELSE IF s[j] = ")"
    THEN <<Token("END", s, j, j)>> \o Tokenize(s, j + 1, FALSE)
    ELSE IF s[j] = "."
    THEN <<Token("DOT", s, j, j)>> \o Tokenize(s, j + 1, TRUE)
    ELSE IF s[j] \in IdChars
    THEN LET e == IdEnd(s, j + 1)
         IN <<Token("ID", s, j, e - 1)>> \o Tokenize(s, e, TRUE)
    ELSE <<Token("ERROR", s, j, j)>> \o Tokenize(s, j + 1, TRUE)

\* --------------------------------------------------------------- parser

EofText == <<"<", "E", "O", "F", ">">>

SyntaxMsg(expected, tok) ==
    [kind |-> "syntax", expected |-> expected,
     found |-> IF tok.kind = "EOF" THEN EofText ELSE tok.text]

ParseOk(segs) ==
    [ok |-> TRUE, segs |-> segs, line |-> 0, column |-> 0,
     msg |-> [kind |-> "none"]]

ParseError(segs, tok, expected) ==
    [ok |-> FALSE, segs |-> segs, line |-> tok.line, column |-> tok.column,
     msg |-> SyntaxMsg(expected, tok)]

RECURSIVE ParseSegments(_, _, _)
RECURSIVE ParsePlaceholder(_, _, _, _, _)

\* command := (text | placeholder)*
ParseSegments(toks, k, segs) ==
    LET tok == toks[k]
    IN CASE tok.kind = "EOF" -> ParseOk(segs)
         [] tok.kind = "TEXT" ->
              ParseSegments(toks, k + 1,
                            Append(segs, [kind |-> "text", text |-> tok.text]))
         [] tok.kind = "START" ->
              ParsePlaceholder(toks, k + 1, segs, <<>>, "identifier")
         [] OTHER -> ParseError(segs, tok, "text or '%('")

\* placeholder := '%(' identifier ('.' identifier)* ')'; path holds the
\* identifier and '.' tokens read so far
ParsePlaceholder(toks, k, segs, path, expected) ==
    LET tok == toks[k]
    IN IF expected = "identifier"
       THEN IF tok.kind = "ID"
            THEN ParsePlaceholder(toks, k + 1, segs, Append(path, tok),
                                  "'.' or ')'")
            ELSE ParseError(segs, tok, expected)
       ELSE IF tok.kind = "DOT"
            THEN ParsePlaceholder(toks, k + 1, segs, Append(path, tok),
                                  "identifier")
            ELSE IF tok.kind = "END"
            THEN ParseSegments(toks, k + 1,
                               Append(segs, [kind |-> "variable",
                                             path |-> path]))
            ELSE ParseError(segs, tok, expected)

\* parser.command(): the segments of input_str, or its first syntax error
\* (with the segments read before it)
ParseCommand(s) == ParseSegments(Tokenize(s, 1, FALSE), 1, <<>>)

\* ------------------------------------------------------------ parse tree

RECURSIVE Flatten(_)
Flatten(ss) == IF ss = <<>> THEN <<>> ELSE Head(ss) \o Flatten(Tail(ss))

\* ctx.getText(): the text of the tokens under the node
GetText(toks) == Flatten([j \in 1..Len(toks) |-> toks[j].text])

SelectKind(toks, kind) == SelectSeq(toks, LAMBDA t : t.kind = kind)

Event(ev, text, line, column) ==
    [ev |-> ev, text |-> text, line |-> line, column |-> column]

\* ParseTreeWalker.walk: the listener callbacks of one segment that are
\* not empty, in the order of the walk.  (enterVariable, exitArgument,
\* enterText and exitCommand are "pass"; enterCommand raises only on a tree
\* with a recorded exception, which the raising error listener never lets
\* parser.command() return.)
SegmentEvents(seg) ==
    IF seg.kind = "text" THEN <<Event("exitText", seg.text, 0, 0)>>
    ELSE LET ids == SelectKind(seg.path, "ID")
         IN <<Event("enterArgumentList", GetText(seg.path), 0, 0)>>
            \o [j \in 1..Len(ids) |->
                  Event("enterArgument", ids[j].text, ids[j].line,
                        ids[j].column)]
            \o <<Event("exitVariable", <<>>, 0, 0)>>

WalkEvents(segs) == Flatten([j \in 1..Len(segs) |-> SegmentEvents(segs[j])])

\* ------------------------------------------------------------- listener

\* the fields of CmdListener and what the call has printed and raised
Machine(rs, ar, va, se, ex) ==
    [result_str |-> rs, args |-> ar, variable |-> va, stderr |-> se,
     exc |-> ex]

Raise(type, msg) == [type |-> type, msg |-> msg]

UnknownLine == <<"<", "u", "n", "k", "n", "o", "w", "n", " ", "l", "i", "n",
                 "e", ">">>

\* get_line_from_ctx(ctx), full_text being the text of the input stream
get_line_from_ctx(ctx, full_text) ==
    LET lines == splitlines(full_text)
    IN IF 1 <= ctx.line /\ ctx.line <= Len(lines) THEN lines[ctx.line]
       ELSE UnknownLine

KeyMsg(key, container) == [kind |-> "key", key |-> key, context |-> container]

TypeMsg(key, value) ==
    [kind |-> "type", key |-> key, typename |-> TypeName(value)]

\* the text exitVariable appends for the value the path has reached
Render(v, qd) ==
    IF IsDict(v)
    THEN IF qd THEN shlex_quote(reverse_quotes(Str(v)))
         ELSE reverse_quotes(Str(v))
    ELSE Str(v)

\* exitVariable without its last line: the cursor is not reset
exitVariable_noreset(m, qd) ==
    IF m.variable = NoneV
    THEN [m EXCEPT !.exc = Raise("RuntimeError", [kind |-> "novariable"])]
    ELSE [m EXCEPT !.result_str = m.result_str \o Render(m.variable, qd)]

\* CmdListener.exitVariable
exitVariable_h(m, qd) ==
    IF m.variable = NoneV
    THEN [m EXCEPT !.exc = Raise("RuntimeError", [kind |-> "novariable"])]
    ELSE [m EXCEPT !.result_str = m.result_str \o Render(m.variable, qd),
                   !.variable = NoneV]

\* CmdListener.enterArgumentList
enterArgumentList_h(m, ctx) == [m EXCEPT !.args = m.args \cup {ctx.text}]

\* enterArgument that raises without printing the diagnostic
enterArgument_noprint(m, ctx, table, full_text) ==
    LET cur == IF m.variable = NoneV THEN table ELSE m.variable
    IN IF ~IsDict(cur)
       THEN [m EXCEPT !.variable = cur,
                      !.exc = Raise("CmdTypeError", TypeMsg(ctx.text, cur))]
       ELSE LET v == DictGet(cur, ctx.text)
            IN IF v = NoneV
               THEN [m EXCEPT !.variable = cur,
                              !.exc = Raise("CmdKeyError",
                                            KeyMsg(ctx.text, cur))]
               ELSE [m EXCEPT !.variable = v]

\* CmdListener.enterArgument; only a dict has the attribute get
enterArgument_h(m, ctx, table, full_text) ==
    LET cur == IF m.variable = NoneV THEN table ELSE m.variable
        failed(type, msg) ==
            [m EXCEPT !.variable = cur,
                      !.stderr = Append(m.stderr,
                          format_print_error(ctx.line, ctx.column,
                              get_line_from_ctx(ctx, full_text), msg)),
                      !.exc = Raise(type, msg)]
    IN IF ~IsDict(cur) THEN failed("CmdTypeError", TypeMsg(ctx.text, cur))
       ELSE LET v == DictGet(cur, ctx.text)
            IN IF v = NoneV THEN failed("CmdKeyError", KeyMsg(ctx.text, cur))
               ELSE [m EXCEPT !.variable = v]

\* CmdListener.exitText
exitText_h(m, ctx) == [m EXCEPT !.result_str = m.result_str \o ctx.text]

\* syntaxError that prints and raises nothing
syntaxError_noraise(m, input_text, line, column, msg) ==
    LET error_line == IF 1 <= line /\ line <= Len(input_text)
                      THEN input_text[line] ELSE <<>>
    IN [m EXCEPT !.stderr = Append(m.stderr,
                     format_print_error(line, column, error_line, msg))]

\* CustomErrorListener.syntaxError, input_text being the lines of the input
syntaxError_h(m, input_text, line, column, msg) ==
    LET error_line == IF 1 <= line /\ line <= Len(input_text)
                      THEN input_text[line] ELSE <<>>
    IN [m EXCEPT !.stderr = Append(m.stderr,
                     format_print_error(line, column, error_line, msg)),
                 !.exc = Raise("CmdSyntaxError", msg)]

\* the callback of one event of the walk
Callback(m, e, table, qd, full_text) ==
    CASE e.ev = "exitText" -> exitText_h(m, e)
      [] e.ev = "enterArgumentList" -> enterArgumentList_h(m, e)
      [] e.ev = "enterArgument" -> enterArgument_h(m, e, table, full_text)
      [] e.ev = "exitVariable" -> exitVariable_h(m, qd)

\* walker.walk(listener, tree) from event k on: it ends with the tree or
\* with the first exception
RECURSIVE Walk(_, _, _, _, _, _)
Walk(m, evs, k, table, qd, full_text) ==
    IF k > Len(evs) \/ m.exc # NoExc THEN m
    ELSE Walk(Callback(m, evs[k], table, qd, full_text), evs, k + 1, table,
              qd, full_text)

\* interpolate_str as a function: what the call has returned or raised
interpolate_str(s, table, qd) ==
    LET tree == ParseCommand(s)
        blank == Machine(<<>>, {}, NoneV, <<>>, NoExc)
        parsed == IF tree.ok THEN blank
                  ELSE syntaxError_h(blank, splitlines(s), tree.line,
                                     tree.column, tree.msg)
    IN Walk(parsed, WalkEvents(tree.segs), 1, table, qd, s)

\* --------------------------------------------------------------- inputs

\* the pieces commands are made of: text, placeholders (one with blanks,
\* one after a text), an unterminated placeholder, what may end it, a line
\* break and a lone %
Pieces ==
    {<<"x">>,
     <<"%", "(", "a", ")">>,
     <<"%", "(", " ", "a", " ", ".", "b", ")">>,
     <<"x", "%", "(", "c", ")">>,
     <<"%", "(", "a">>,
     <<".", "b", ")">>,
     <<NL, "%">>}

PieceSeqs == UNION {[1..n -> Pieces] : n \in 0..MaxPieces}

\* the words of the pieces ps, cut after the pieces of cuts
RECURSIVE SplitWords(_, _, _, _)
SplitWords(ps, cuts, k, word) ==
    IF k > Len(ps) THEN <<word>>
    ELSE IF (k - 1) \in cuts
    THEN <<word>> \o SplitWords(ps, cuts, k + 1, ps[k])
    ELSE SplitWords(ps, cuts, k + 1, word \o ps[k])

StrCmds == {StrV(Flatten(ps)) : ps \in PieceSeqs}

ListCmds ==
    {ListV(<<>>)} \cup
    UNION {{ListV(SplitWords(ps, cuts, 2, ps[1])) :
               cuts \in SUBSET (1..(Len(ps) - 1))} :
           ps \in PieceSeqs \ {<<>>}}

KeyA == <<"a">>
KeyB == <<"b">>
KeyC == <<"c">>

\* {"a": {"b": "v'", "c": 0}, "c": 10}
Table1 ==
    DictV(<< <<KeyA, DictV(<< <<KeyB, StrV(<<"v", SQ>>)>>,
                               <<KeyC, IntV(0)>> >>)>>,
             <<KeyC, IntV(10)>> >>)

\* {"a": {"b": None}, "c": ""}
Table2 ==
    DictV(<< <<KeyA, DictV(<< <<KeyB, NoneV>> >>)>>,
             <<KeyC, StrV(<<>>)>> >>)

\* {"a": 's"', "c": [False, "x"]}
Table3 ==
    DictV(<< <<KeyA, StrV(<<"s", DQ>>)>>,
             <<KeyC, ListV(<<BoolV(FALSE), StrV(<<"x">>)>>)>> >>)

\* {"c": False}
Table4 == DictV(<< <<KeyC, BoolV(FALSE)>> >>)

\* {"a": {"k\"'": {"b": -3}}, "c": None}
Table5 ==
    DictV(<< <<KeyA, DictV(<< <<(<<"k", DQ, SQ>>),
                                DictV(<< <<KeyB, IntV(-3)>> >>)>> >>)>>,
             <<KeyC, NoneV>> >>)

\* {}
Table6 == DictV(<<>>)

Tables == {Table1, Table2, Table3, Table4, Table5, Table6}

NoFmt == [line |-> 0, column |-> 0, error_line |-> <<>>]

\* ----------------------------------------------------------------- state

\* the caller is about to call interpolate_str(cmd, variable_table, qd_arg)
\* or cmd_interpolate(cmd, variable_table)
Init ==
    /\ entry \in {"interpolate_str", "cmd_interpolate"}
    /\ cmd \in IF entry = "interpolate_str" THEN StrCmds
               ELSE StrCmds \cup ListCmds
    /\ qd_arg \in IF entry = "interpolate_str" THEN BOOLEAN ELSE {TRUE}
    /\ variable_table \in Tables
    /\ pc = "start"
    /\ i = 0
    /\ interpolated_cmd = <<>>
    /\ involved_keys = {}
    /\ input_str = <<>>
    /\ quote_dict = TRUE
    /\ events = <<>>
    /\ ip = 0
    /\ result_str = <<>>
    /\ args = {}
    /\ variable = NoneV
    /\ stderr = <<>>
    /\ exc = NoExc
    /\ ret = NoRet
    /\ fmt_in = NoFmt

Listener == Machine(result_str, args, variable, stderr, exc)

\* the listener and the outputs become m; an exception ends the call
\* (interpolate_str re-raises a CmdParserError, cmd_interpolate catches
\* nothing), otherwise the walk goes on
Becomes(m) ==
    /\ result_str' = m.result_str
    /\ args' = m.args
    /\ variable' = m.variable
    /\ stderr' = m.stderr
    /\ exc' = m.exc
    /\ IF m.exc # NoExc THEN pc' = "raised" /\ ip' = ip
       ELSE pc' = "walk" /\ ip' = ip + 1

Caller == <<entry, cmd, qd_arg, variable_table, fmt_in>>
Loop == <<i, interpolated_cmd, involved_keys>>
ListenerVars == <<result_str, args, variable>>

\* interpolate_str(input_str, variable_table, quote_dict) is entered
Enter(s, qd) ==
    /\ input_str' = s
    /\ quote_dict' = qd
    /\ pc' = "parse"
    /\ UNCHANGED <<events, ip, ListenerVars, stderr, exc, ret>>

\* the caller calls interpolate_str
call_interpolate_str ==
    /\ pc = "start"
    /\ entry = "interpolate_str"
    /\ Enter(cmd.s, qd_arg)
    /\ UNCHANGED <<Caller, Loop>>

\* cmd_interpolate with a str: the deprecated branch, quote_dict defaults
cmd_interpolate_str ==
    /\ pc = "start"
    /\ entry = "cmd_interpolate"
    /\ cmd.t = "str"
    /\ Enter(cmd.s, TRUE)
    /\ UNCHANGED <<Caller, Loop>>

\* cmd_interpolate with a list: the locals before the loop
cmd_interpolate_list ==
    /\ pc = "start"
    /\ entry = "cmd_interpolate"
    /\ cmd.t = "list"
    /\ interpolated_cmd' = <<>>
    /\ involved_keys' = {}
    /\ i' = 1
    /\ pc' = "loop"
    /\ UNCHANGED <<Caller, input_str, quote_dict, events, ip, ListenerVars,
                   stderr, exc, ret>>

\* the loop calling interpolate_str with its default quote_dict
cmd_interpolate_for_quoted ==
    /\ pc = "loop"
    /\ i <= Len(cmd.l)
    /\ Enter(cmd.l[i], TRUE)
    /\ UNCHANGED <<Caller, Loop>>

\* for c in cmd: interpolate_str(c, variable_table, quote_dict=False)
cmd_interpolate_for ==
    /\ pc = "loop"
    /\ i <= Len(cmd.l)
    /\ Enter(cmd.l[i], FALSE)
    /\ UNCHANGED <<Caller, Loop>>

\* the loop is over: return interpolated_cmd, involved_keys
cmd_interpolate_return ==
    /\ pc = "loop"
    /\ i > Len(cmd.l)
    /\ ret' = [kind |-> "list", value |-> interpolated_cmd,
               keys |-> involved_keys]
    /\ pc' = "done"
    /\ UNCHANGED <<Caller, Loop, input_str, quote_dict, events, ip,
                   ListenerVars, stderr, exc>>

\* parser.command() without a syntax error, then the listener is built
parse_command ==
    /\ pc = "parse"
    /\ LET tree == ParseCommand(input_str)
       IN /\ tree.ok
          /\ events' = WalkEvents(tree.segs)
    /\ ip' = 1
    /\ result_str' = <<>>
    /\ args' = {}
    /\ variable' = NoneV
    /\ pc' = "walk"
    /\ UNCHANGED <<Caller, Loop, input_str, quote_dict, stderr, exc, ret>>

\* parser.command() reports its first syntax error to the error listener,
\* whose exception ends the parse; were none raised, the parser would go on
\* and the tree read so far be walked
syntaxError ==
    /\ pc = "parse"
    /\ LET tree == ParseCommand(input_str)
           m == syntaxError_h(Machine(<<>>, {}, NoneV, stderr, exc),
                              splitlines(input_str), tree.line, tree.column,
                              tree.msg)
       IN /\ ~tree.ok
          /\ events' = IF m.exc # NoExc THEN events
                       ELSE WalkEvents(tree.segs)
          /\ Becomes(m)
    /\ UNCHANGED <<Caller, Loop, input_str, quote_dict, ret>>

AtEvent(ev) == pc = "walk" /\ ip <= Len(events) /\ events[ip].ev = ev

enterArgumentList ==
    /\ AtEvent("enterArgumentList")
    /\ Becomes(enterArgumentList_h(Listener, events[ip]))
    /\ UNCHANGED <<Caller, Loop, input_str, quote_dict, events, ret>>

\* enterArgument looking the key up with setdefault: a key the table lacks
\* is added to it
enterArgument_setdefault ==
    /\ AtEvent("enterArgument")
    /\ Becomes(enterArgument_h(Listener, events[ip], variable_table,
                               input_str))
    /\ variable_table' =
          IF variable = NoneV /\ events[ip].text \notin Keys(variable_table)
          THEN DictV(Append(variable_table.items, <<events[ip].text, NoneV>>))
          ELSE variable_table
    /\ UNCHANGED <<entry, cmd, qd_arg, fmt_in, Loop, input_str, quote_dict,
                   events, ret>>

enterArgument ==
    /\ AtEvent("enterArgument")
    /\ Becomes(enterArgument_h(Listener, events[ip], variable_table,
                               input_str))
    /\ UNCHANGED <<Caller, Loop, input_str, quote_dict, events, ret>>

exitVariable ==
    /\ AtEvent("exitVariable")
    /\ Becomes(exitVariable_h(Listener, quote_dict))
    /\ UNCHANGED <<Caller, Loop, input_str, quote_dict, events, ret>>

exitText ==
    /\ AtEvent("exitText")
    /\ Becomes(exitText_h(Listener, events[ip]))
    /\ UNCHANGED <<Caller, Loop, input_str, quote_dict, events, ret>>

WalkDone == pc = "walk" /\ ip > Len(events)

\* interpolate_str returns listener.result_str, listener.args to the caller
interpolate_str_return ==
    /\ WalkDone
    /\ ~(entry = "cmd_interpolate" /\ cmd.t = "list")
    /\ ret' = [kind |-> "str", value |-> result_str, keys |-> args]
    /\ pc' = "done"
    /\ UNCHANGED <<Caller, Loop, input_str, quote_dict, events, ip,
                   ListenerVars, stderr, exc>>

\* the body of the loop keeping the keys of the last word only
cmd_interpolate_body_lastkeys ==
    /\ WalkDone
    /\ entry = "cmd_interpolate" /\ cmd.t = "list"
    /\ interpolated_cmd' = Append(interpolated_cmd, result_str)
    /\ involved_keys' = args
    /\ i' = i + 1
    /\ pc' = "loop"
    /\ UNCHANGED <<Caller, input_str, quote_dict, events, ip, ListenerVars,
                   stderr, exc, ret>>

\* interpolate_str returns into the loop of cmd_interpolate: its body
cmd_interpolate_body ==
    /\ WalkDone
    /\ entry = "cmd_interpolate" /\ cmd.t = "list"
    /\ interpolated_cmd' = Append(interpolated_cmd, result_str)
    /\ involved_keys' = involved_keys \cup args
    /\ i' = i + 1
    /\ pc' = "loop"
    /\ UNCHANGED <<Caller, input_str, quote_dict, events, ip, ListenerVars,
                   stderr, exc, ret>>

Next ==
    \/ call_interpolate_str
    \/ cmd_interpolate_str
    \/ cmd_interpolate_list
    \/ cmd_interpolate_for
    \/ cmd_interpolate_return
    \/ parse_command
    \/ syntaxError
    \/ enterArgumentList
    \/ enterArgument
    \/ exitVariable
    \/ exitText
    \/ interpolate_str_return
    \/ cmd_interpolate_body

Spec == Init /\ [][Next]_vars

\* ------------------------------------------- format_print_error alone

\* a line of n characters, all "a" but a "b" at the 0-based column c
MarkedLine(n, c) ==
    IF n = 0 THEN <<>> ELSE [j \in 1..n |-> IF j = c + 1 THEN "b" ELSE "a"]

FmtInputs ==
    {[line |-> 1, column |-> c, error_line |-> MarkedLine(n, c)] :
        n \in 0..MaxLineLen, c \in 0..MaxLineLen}

\* the caller is about to call format_print_error on a line and a column of it
InitFmt ==
    /\ entry = "format_print_error"
    /\ fmt_in \in {f \in FmtInputs : f.column <= Len(f.error_line)}
    /\ cmd = StrV(<<>>)
    /\ qd_arg = TRUE
    /\ variable_table = Table6
    /\ pc = "fmt"
    /\ i = 0
    /\ interpolated_cmd = <<>>
    /\ involved_keys = {}
    /\ input_str = <<>>
    /\ quote_dict = TRUE
    /\ events = <<>>
    /\ ip = 0
    /\ result_str = <<>>
    /\ args = {}
    /\ variable = NoneV
    /\ stderr = <<>>
    /\ exc = NoExc
    /\ ret = NoRet

format_print_error_call ==
    /\ pc = "fmt"
    /\ stderr' = Append(stderr,
                        format_print_error(fmt_in.line, fmt_in.column,
                                           fmt_in.error_line,
                                           [kind |-> "none"]))
    /\ pc' = "done"
    /\ UNCHANGED <<Caller, Loop, input_str, quote_dict, events, ip,
                   ListenerVars, exc, ret>>

NextFmt == format_print_error_call

SpecFmt == InitFmt /\ [][NextFmt]_vars

\* ------------------------------------------------ what the claims say

\* the walk of a path from the root of the table, as the specification
\* words it: a value, or the failure at segment seg on the value reached
RECURSIVE ResolveFrom(_, _, _)
ResolveFrom(cur, ids, j) ==
    IF j > Len(ids) THEN [ok |-> TRUE, value |-> cur]
    ELSE IF cur.t # "dict"
    THEN [ok |-> FALSE, kind |-> "NotAContainer", seg |-> j, value |-> cur]
    ELSE IF \A n \in 1..Len(cur.items) : cur.items[n][1] # ids[j]
    THEN [ok |-> FALSE, kind |-> "KeyNotFound", seg |-> j, value |-> cur]
    ELSE LET n == CHOOSE n \in 1..Len(cur.items) : cur.items[n][1] = ids[j]
         IN ResolveFrom(cur.items[n][2], ids, j + 1)

Resolve(table, ids) == ResolveFrom(table, ids, 1)

IsScalar(v) == v.t \in {"str", "int", "bool", "none"}

\* the event that opens, and the one that closes, the placeholder of event k
OpenOf(k) ==
    CHOOSE a \in 1..k :
        /\ events[a].ev = "enterArgumentList"
        /\ \A n \in (a + 1)..k : events[n].ev # "enterArgumentList"

CloseOf(k) ==
    CHOOSE b \in k..Len(events) :
        /\ events[b].ev = "exitVariable"
        /\ \A n \in k..(b - 1) : events[n].ev # "exitVariable"

IdsOf(a, b) ==
    IF b < a THEN <<>> ELSE [j \in 1..(b - a + 1) |-> events[a + j - 1].text]

\* the identifiers of the placeholder of event k: all, and those before k
PathOf(k) == IdsOf(OpenOf(k) + 1, CloseOf(k) - 1)
PathBefore(k) == IdsOf(OpenOf(k) + 1, k - 1)

\* what the step has appended to result_str
Appended == SubSeq(result_str', Len(result_str) + 1, Len(result_str'))

ExtendsResult == /\ Len(result_str') >= Len(result_str)
                 /\ SubSeq(result_str', 1, Len(result_str)) = result_str

\* the event the last step of the walk has handled
Handled(ev) == pc = "walk" /\ ip > 1 /\ events[ip - 1].ev = ev

SwapQuote(c) == IF c = SQ THEN DQ ELSE IF c = DQ THEN SQ ELSE c
SwapQuotes(s) == IF s = <<>> THEN <<>> ELSE [j \in 1..Len(s) |-> SwapQuote(s[j])]

\* the words a POSIX shell reads from s, quotes and escapes removed
\* (mode: "plain", "sq" inside '...', "dq" inside "..."; word: the word
\* being read and whether there is one)
RECURSIVE ShellWords(_, _, _, _, _)
ShellWords(s, j, mode, word, inword) ==
    IF j > Len(s)
    THEN IF mode # "plain" THEN [ok |-> FALSE, words |-> <<>>]
         ELSE [ok |-> TRUE, words |-> IF inword THEN <<word>> ELSE <<>>]
    ELSE LET c == s[j]
             rest(m, w, iw) == ShellWords(s, j + 1, m, w, iw)
         IN CASE mode = "sq" ->
                   IF c = SQ THEN rest("plain", word, TRUE)
                   ELSE rest("sq", Append(word, c), TRUE)
              [] mode = "dq" ->
                   IF c = DQ THEN rest("plain", word, TRUE)
                   ELSE IF c = BS /\ j < Len(s) /\ s[j + 1] \in {DQ, BS, "$"}
                   THEN ShellWords(s, j + 2, "dq", Append(word, s[j + 1]), TRUE)
                   ELSE rest("dq", Append(word, c), TRUE)
              [] OTHER ->
                   IF c \in {" ", "\t", NL}
                   THEN IF inword
                        THEN LET r == rest("plain", <<>>, FALSE)
                             IN [ok |-> r.ok, words |-> <<word>> \o r.words]
                        ELSE rest("plain", <<>>, FALSE)
                   ELSE IF c = SQ THEN rest("sq", word, TRUE)
                   ELSE IF c = DQ THEN rest("dq", word, TRUE)
                   ELSE IF c = BS /\ j < Len(s)
                   THEN ShellWords(s, j + 2, "plain", Append(word, s[j + 1]),
                                   TRUE)
                   ELSE rest("plain", Append(word, c), TRUE)

ShellSplit(s) == ShellWords(s, 1, "plain", <<>>, FALSE)

RECURSIVE DotJoin(_)
DotJoin(ids) ==
    IF Len(ids) = 1 THEN ids[1] ELSE ids[1] \o <<".">> \o DotJoin(Tail(ids))

\* the identifiers of a placeholder segment
SegIds(seg) ==
    LET ids == SelectKind(seg.path, "ID")
    IN [j \in 1..Len(ids) |-> ids[j].text]

Placeholders(s) ==
    LET segs == ParseCommand(s).segs
    IN {segs[j] : j \in {n \in 1..Len(segs) : segs[n].kind = "variable"}}

\* the dot-joined path texts of the placeholders of s
PathTexts(s) == {DotJoin(SegIds(seg)) : seg \in Placeholders(s)}

IsListCall == entry = "cmd_interpolate" /\ cmd.t = "list"

\* ---------------------------------------------------------------- claims

\* C1 (as claimed): a placeholder whose path resolves to a Scalar v (text,
\* number, boolean or null) raises nothing at any of its identifiers, its
\* last identifier leaves the cursor on v, and exitVariable appends exactly
\* str(v), whatever quote_dict is.
C1_ScalarRendered ==
    [][LET r == Resolve(variable_table, PathOf(ip))
       IN /\ (AtEvent("enterArgument") /\ r.ok /\ IsScalar(r.value))
                => /\ exc' = NoExc
                   /\ (events[ip + 1].ev = "exitVariable"
                          => variable' = r.value)
          /\ (AtEvent("exitVariable") /\ r.ok /\ IsScalar(r.value))
                => (ExtendsResult /\ Appended = Str(r.value))]_vars

\* C1, for the Scalars other than null: the same statement holds.
C1_NonNullScalarRendered ==
    [][LET r == Resolve(variable_table, PathOf(ip))
           scalar == r.ok /\ IsScalar(r.value) /\ r.value # NoneV
       IN /\ (AtEvent("enterArgument") /\ scalar)
                => /\ exc' = NoExc
                   /\ (events[ip + 1].ev = "exitVariable"
                          => variable' = r.value)
          /\ (AtEvent("exitVariable") /\ scalar)
                => (ExtendsResult /\ Appended = Str(r.value))]_vars

\* the diagnostic d points at the text tok of the input: line d.line holds
\* tok at the 1-based column d.column, and so does the snippet at the caret
PointsAt(d, tok) ==
    LET lines == splitlines(input_str)
        text == IF 1 <= d.line /\ d.line <= Len(lines) THEN lines[d.line]
                ELSE <<>>
    IN /\ d.column >= 1
       /\ SubSeq(text, d.column, d.column + Len(tok) - 1) = tok
       /\ SubSeq(d.context_line, d.pointer_offset + 1,
                 d.pointer_offset + Len(tok)) = tok

\* C2 (as claimed): at each identifier k of a path, current being the value
\* the identifiers before k lead to from the root of the table: if current
\* is not a Mapping the step raises not-a-container naming k and the type of
\* current; else if k is not a key of current it raises key-not-found naming
\* k; else it raises nothing and the cursor becomes current[k].  Both
\* failures are printed at the line and column of k.
C2_PathWalk ==
    [][AtEvent("enterArgument") =>
        LET k == events[ip].text
            current == Resolve(variable_table, PathBefore(ip)).value
            next == Resolve(current, <<k>>)
            d == stderr'[Len(stderr')]
        IN IF current.t # "dict"
           THEN /\ exc'.type = "CmdTypeError"
                /\ exc'.msg.key = k
                /\ exc'.msg.typename = TypeName(current)
                /\ Len(stderr') = Len(stderr) + 1
                /\ PointsAt(d, k)
           ELSE IF ~next.ok
           THEN /\ exc'.type = "CmdKeyError"
                /\ exc'.msg.key = k
                /\ Len(stderr') = Len(stderr) + 1
                /\ PointsAt(d, k)
           ELSE /\ exc' = NoExc
                /\ variable' = next.value]_vars

\* C2, for the keys whose value is not null: the same statement holds.
C2_PathWalkNonNull ==
    [][AtEvent("enterArgument") =>
        LET k == events[ip].text
            current == Resolve(variable_table, PathBefore(ip)).value
            next == Resolve(current, <<k>>)
            d == stderr'[Len(stderr')]
        IN IF current.t # "dict"
           THEN /\ exc'.type = "CmdTypeError"
                /\ exc'.msg.key = k
                /\ exc'.msg.typename = TypeName(current)
                /\ Len(stderr') = Len(stderr) + 1
                /\ PointsAt(d, k)
           ELSE IF ~next.ok
           THEN /\ exc'.type = "CmdKeyError"
                /\ exc'.msg.key = k
                /\ Len(stderr') = Len(stderr) + 1
                /\ PointsAt(d, k)
           ELSE IF next.value = NoneV THEN TRUE
           ELSE /\ exc' = NoExc
                /\ variable' = next.value]_vars

ParserErrors == {"CmdSyntaxError", "CmdKeyError", "CmdTypeError"}

C4_MappingRendered ==
    [][LET r == Resolve(variable_table, PathOf(ip))
       IN (AtEvent("exitVariable") /\ r.ok /\ r.value.t = "dict") =>
            /\ ExtendsResult
            /\ IF quote_dict
               THEN ShellSplit(Appended) =
                       [ok |-> TRUE, words |-> <<SwapQuotes(Repr(r.value))>>]
               ELSE /\ Appended = SwapQuotes(Repr(r.value))
                    /\ SwapQuotes(Appended) = Repr(r.value)]_vars

\* C4 witness: a Mapping whose rendering holds both quote characters has
\* been rendered with quote_dict true.
C4_Witness ==
    /\ Handled("exitVariable")
    /\ quote_dict
    /\ LET r == Resolve(variable_table, PathOf(ip - 1))
       IN /\ r.ok
          /\ r.value.t = "dict"
          /\ {SQ, DQ} \subseteq Chars(Repr(r.value))

\* C5: when interpolate_str is about to return, args is the set of the
\* dot-joined path texts of the placeholders of its input, none of which
\* holds a blank; the key set a call returns is that of its input, and for a
\* list of words the union of those of the words.
C5_InvolvedKeys ==
    /\ WalkDone => args = PathTexts(input_str)
    /\ \A key \in args \cup involved_keys : Chars(key) \cap Whitespace = {}
    /\ (pc = "done" /\ entry # "format_print_error") =>
          ret.keys = IF IsListCall
                     THEN UNION {PathTexts(cmd.l[j]) : j \in 1..Len(cmd.l)}
                     ELSE PathTexts(cmd.s)

\* C5 witness: a list of words has returned two keys, one of them written
\* with blanks in the input.
C5_Witness ==
    /\ pc = "done"
    /\ IsListCall
    /\ Len(cmd.l) >= 2
    /\ Cardinality(ret.keys) >= 2
    /\ <<"a", ".", "b">> \in ret.keys
    /\ \E j \in 1..Len(cmd.l) : " " \in Chars(cmd.l[j])

\* the result of word j of the list, interpolated alone with quote_dict false
WordResult(j) == interpolate_str(cmd.l[j], variable_table, FALSE)

FailingWords == {j \in 1..Len(cmd.l) : WordResult(j).exc # NoExc}

FirstFailing == CHOOSE j \in FailingWords : \A n \in FailingWords : j <= n

\* C6: cmd_interpolate on a list returns only when every word interpolates,
\* and then the words interpolated one by one with quote_dict false, in
\* order; otherwise it raises the error of the first failing word, has
\* returned nothing, and never goes on to a later word.
C6_FailFast ==
    IsListCall =>
        /\ pc = "done" =>
              /\ FailingWords = {}
              /\ Len(ret.value) = Len(cmd.l)
              /\ \A j \in 1..Len(cmd.l) : ret.value[j] = WordResult(j).result_str
        /\ pc = "raised" =>
              /\ FailingWords # {}
              /\ i = FirstFailing
              /\ exc = WordResult(i).exc
              /\ ret = NoRet
              /\ Len(interpolated_cmd) = i - 1
        /\ FailingWords # {} => i <= FirstFailing
        /\ exc # NoExc => pc = "raised"

\* C6 witness: the first of two words has failed, and the second alone
\* would not have.
C6_Witness ==
    /\ IsListCall
    /\ pc = "raised"
    /\ i = 1
    /\ Len(cmd.l) = 2
    /\ FailingWords = {1}

\* C7: no step of interpolate_str or cmd_interpolate changes the variable
\* table or a value in it.
C7_TableUnchanged == [][variable_table' = variable_table]_vars

\* C7 witness: a call has failed on a key the table lacks.
C7_Witness ==
    /\ pc = "raised"
    /\ exc.type = "CmdKeyError"
    /\ exc.msg.key \notin Keys(exc.msg.context)
    /\ exc.msg.context = variable_table

\* what a segment renders to: a text itself, a placeholder the value its own
\* path leads to from the root of the table
SegmentText(seg) ==
    IF seg.kind = "text" THEN seg.text
    ELSE Render(Resolve(variable_table, SegIds(seg)).value, quote_dict)

\* C8: when interpolate_str is about to return, result_str is the
\* concatenation, in source order, of what each segment renders to, every
\* path has resolved, and the cursor is unset whenever the walk is between
\* two segments.
C8_Concatenation ==
    LET segs == ParseCommand(input_str).segs
    IN /\ WalkDone =>
            /\ result_str = Flatten([j \in 1..Len(segs) |-> SegmentText(segs[j])])
            /\ \A seg \in Placeholders(input_str) :
                   Resolve(variable_table, SegIds(seg)).ok
       /\ (WalkDone \/ AtEvent("enterArgumentList") \/ AtEvent("exitText"))
             => variable = NoneV

\* C8 witness: an input with two different placeholders and a text has been
\* interpolated.
C8_Witness ==
    /\ WalkDone
    /\ Cardinality(args) >= 2
    /\ \E j \in 1..Len(events) : events[j].ev = "exitText"

\* C9: for a line and a 0-based column of it (or its end), the snippet holds
\* min(column, 50) characters of the line before the column and
\* min(length - column - 1, 50) after it, starts with an ellipsis exactly
\* when the column is past 50 and ends with one exactly when more than 50
\* characters follow the column, the caret offset is that of the character
\* of the column in the snippet (the end of the snippet at the end of the
\* line), and the column reported is column + 1.
C9_BoundedSnippet ==
    (entry = "format_print_error" /\ pc = "done") =>
        LET d == stderr[1]
            n == Len(fmt_in.error_line)
            c == fmt_in.column
            snippet == d.context_line
            m == Len(snippet)
            lead == m >= 3 /\ SubSeq(snippet, 1, 3) = Ellipsis
            trail == m >= 3 /\ SubSeq(snippet, m - 2, m) = Ellipsis
            before == d.pointer_offset - (IF lead THEN 3 ELSE 0)
            after == m - d.pointer_offset - 1 - (IF trail THEN 3 ELSE 0)
        IN /\ d.column = c + 1
           /\ lead <=> c > context_size
           /\ trail <=> n - c - 1 > context_size
           /\ before = Min(c, context_size)
           /\ IF c < n
              THEN /\ snippet[d.pointer_offset + 1] = "b"
                   /\ after = Min(n - c - 1, context_size)
              ELSE d.pointer_offset = m

\* C9 witness: a line cut on both sides.
C9_Witness ==
    /\ entry = "format_print_error"
    /\ pc = "done"
    /\ fmt_in.column > context_size
    /\ Len(fmt_in.error_line) - fmt_in.column - 1 > context_size

\* C10: the walk starts only on an input without a syntax error; an input
\* with one raises a syntax error with the message of the first error, and
\* then no callback has run: nothing was looked up, no text or key was
\* produced, and the one thing printed is the diagnostic of the syntax error.
C10_ParseFirst ==
    LET tree == ParseCommand(input_str)
    IN /\ pc = "walk" => tree.ok
       /\ (pc = "raised" /\ ~tree.ok) =>
             /\ exc = Raise("CmdSyntaxError", tree.msg)
             /\ result_str = <<>>
             /\ args = {}
             /\ variable = NoneV
             /\ Len(stderr) = 1
             /\ stderr[1].msg.kind = "syntax"
       /\ (pc = "done" /\ ~IsListCall) => tree.ok

\* C10 witness: a syntax error was raised for an input in which an earlier
\* placeholder does not resolve in the table.
C10_Witness ==
    /\ pc = "raised"
    /\ exc.type = "CmdSyntaxError"
    /\ \E seg \in Placeholders(input_str) :
           ~Resolve(variable_table, SegIds(seg)).ok

====
